---- MODULE Spec2Model ----
(***************************************************************************)
(* Model of the dry-run trading pipeline: the caching, rate-limited,       *)
(* retrying MarketDataScraper (src/scrapers/market_data.py), the stateful  *)
(* RiskFilter (src/risk/filters.py) and the LiveExecutor gate              *)
(* (src/executor/live.py).                                                 *)
(*                                                                         *)
(* Strings whose characters matter (endpoint, robots paths, cache keys,    *)
(* the approval blob) are sequences of one-character strings.  Time is an  *)
(* integer clock `now`; one tick is the unit of every duration.            *)
(***************************************************************************)
EXTENDS Integers, Sequences, FiniteSets, TLC

VARIABLES
    \* ---- MarketDataScraper instance ----
    base_url,          \* config.base_url (immutable after construction)
    endpoint,          \* config.endpoint (immutable after construction)
    robot_parser,      \* self._robot_parser: None or the parsed rule list
    last_request_ts,   \* self._last_request_ts
    cache,             \* files of cache_dir: file name -> [text, mtime]
    now,               \* the clock (time.monotonic / time.time)
    call,              \* per caller: position and locals of get_intraday_prices
    result,            \* per caller: outcome of the caller's last finished call
    prev,              \* per caller: summary of the call before the current one
    lastGetAt,         \* time of the session's most recent get(), None before
    \* ---- RiskFilter instance ----
    riskConfig,        \* self.config
    daily_trade_count, \* self._daily_trade_count
    riskResult,        \* outcome of the last validate / reset call
    okSinceReset,      \* number of successful validate calls since the last reset
    \* ---- LiveExecutor environment ----
    env,               \* os.environ: EXECUTE_LIVE and APPROVAL_JSON
    liveResult,        \* what the last LiveExecutor.execute raised or returned
    \* ---- MockExecutor and its audit log file ----
    audit_log,         \* lines of the audit log file, oldest first
    log_at_start,      \* history: the file's lines before the first execute
    executions,        \* history: (order, price) of every execute so far
    mockReport,        \* the report the last MockExecutor.execute returned
    \* ---- run_pipeline ----
    pipelineInput,     \* the symbol and the raw["prices"] rows of the run
    pipelineRun,       \* position and locals of the current / last run
    \* ---- momentum_signal ----
    signalInput,       \* the arguments: prices, short_window, long_window
    signalResult,      \* what the call returned or raised
    \* ---- normalize_ohlc_rows ----
    normInput,         \* the rows argument
    normResult,        \* what the call returned or raised
    \* ---- threads calling one RiskFilter ----
    riskThread,        \* per thread: position in validate and its local copy
    threadCalls,       \* number of calls the threads have started
    overlapped         \* history: a call started while another was running

scraperVars == <<base_url, endpoint, robot_parser, last_request_ts, cache, now, call,
                 result, prev, lastGetAt>>
riskVars == <<riskConfig, daily_trade_count, riskResult, okSinceReset>>
liveVars == <<env, liveResult>>
mockVars == <<audit_log, log_at_start, executions, mockReport>>
pipelineVars == <<pipelineInput, pipelineRun>>
signalVars == <<signalInput, signalResult>>
normVars == <<normInput, normResult>>
threadVars == <<riskThread, threadCalls, overlapped>>
vars == <<scraperVars, riskVars, liveVars, mockVars, pipelineVars, signalVars, normVars, threadVars>>

None == "None"

(***************************************************************************)
(* Bounds of the model and the configuration values it runs with.          *)
(***************************************************************************)
MaxTime == 8
cache_ttl_seconds == 2
rate_limit_seconds == 2
max_retries == 2
backoff_factor == 1

Callers == {1, 2}

(***************************************************************************)
(* String helpers (Python str methods on sequences of characters).         *)
(***************************************************************************)
RECURSIVE LStrip(_, _)
LStrip(s, ch) ==
    IF s # <<>> /\ Head(s) = ch THEN LStrip(Tail(s), ch) ELSE s

RECURSIVE RStrip(_, _)
RStrip(s, ch) ==
    IF s # <<>> /\ s[Len(s)] = ch THEN RStrip(SubSeq(s, 1, Len(s) - 1), ch) ELSE s

Strip(s, ch) == RStrip(LStrip(s, ch), ch)

EndsWith(s, ch) == s # <<>> /\ s[Len(s)] = ch

StartsWith(s, p) == Len(p) <= Len(s) /\ SubSeq(s, 1, Len(p)) = p

RECURSIVE Join(_, _)
Join(parts, sep) ==
    IF parts = <<>> THEN <<>>
    ELSE IF Len(parts) = 1 THEN parts[1]
    ELSE parts[1] \o sep \o Join(Tail(parts), sep)

RECURSIVE Pow2(_)
Pow2(n) == IF n <= 0 THEN 1 ELSE 2 * Pow2(n - 1)

(***************************************************************************)
(* Robots policy.  A RobotFileParser holds the rule lines of the entry     *)
(* that applies to the configured user agent, in file order; a rule        *)
(* applies to a path it is a prefix of, the first applicable rule decides  *)
(* and a path no rule applies to is allowed.                               *)
(***************************************************************************)
Rule(allowance, path) == [allowance |-> allowance, path |-> path]

RECURSIVE CanFetch(_, _)
CanFetch(rules, path) ==
    IF rules = <<>> THEN TRUE
    ELSE IF StartsWith(path, Head(rules).path) THEN Head(rules).allowance
    ELSE CanFetch(Tail(rules), path)

\* The policies a robots.txt (downloaded or injected) can carry in the model.
Policies ==
    { <<>>,
      << Rule(FALSE, <<"/", "i", "/">>) >>,
      << Rule(FALSE, <<"/", "i", "/", "/">>) >>,
      << Rule(TRUE, <<"/", "i", "/">>), Rule(FALSE, <<"/">>) >> }

\* config.endpoint values of the model.
Endpoints == { <<"i">>, <<"i", "/", "/">> }

\* _is_allowed (the definition in force, the second one of the class).
\* urlsplit(p).path is p for the paths the callers build: they start with one
\* "/" and carry no scheme, query or fragment.
IsAllowed(parser, url_or_path) ==
    LET path == url_or_path
        primary_allowed == CanFetch(parser, path)
        alt_path == RStrip(path, "/") \o <<"/">>
    IN  IF EndsWith(path, "/") THEN primary_allowed
        ELSE primary_allowed /\ CanFetch(parser, alt_path)

\* endpoint_path of the first permission check: f"/{endpoint.strip('/')}/".
EndpointPath(ep) == <<"/">> \o Strip(ep, "/") \o <<"/">>

\* _format_robots_path
FormatRobotsPath(endpoint_path) ==
    LET normalized == LStrip(endpoint_path, "/")
        robots_path == <<"/">> \o normalized
    IN  IF normalized = <<>> THEN <<"/">>
        ELSE IF EndsWith(robots_path, "/") THEN robots_path
        ELSE robots_path \o <<"/">>

\* robots_path of the second permission check.
RobotsPath(ep) == FormatRobotsPath(LStrip(ep, "/"))

(***************************************************************************)
(* URLs.  A URL is a sequence of tokens: the scheme with its colon, each   *)
(* "/" on its own, and the host and every path segment as one token, so    *)
(* https://example.com/api/ is <<"https:", "/", "/", "example.com", "/",   *)
(* "api", "/">>.                                                           *)
(***************************************************************************)
\* str.split("/") on a path: its segments, "" for an empty one.
RECURSIVE SplitSlash(_)
SplitSlash(p) ==
    IF p = <<>> THEN <<"">>
    ELSE IF Head(p) = "/" THEN <<"">> \o SplitSlash(Tail(p))
    ELSE IF Len(p) = 1 THEN <<p[1]>>
    ELSE <<p[1]>> \o SplitSlash(SubSeq(p, 3, Len(p)))

\* "/".join(segments)
RECURSIVE JoinSlash(_)
JoinSlash(segments) ==
    IF segments = <<>> THEN <<>>
    ELSE LET first == IF Head(segments) = "" THEN <<>> ELSE <<Head(segments)>>
         IN  IF Len(segments) = 1 THEN first
             ELSE first \o <<"/">> \o JoinSlash(Tail(segments))

\* filter(None, segments)
RECURSIVE DropEmpty(_)
DropEmpty(segments) ==
    IF segments = <<>> THEN <<>>
    ELSE IF Head(segments) = "" THEN DropEmpty(Tail(segments))
    ELSE <<Head(segments)>> \o DropEmpty(Tail(segments))

\* urlsplit(url): scheme "://" netloc, then the path.
UrlPrefix(url) == SubSeq(url, 1, 4)
UrlPath(url) == SubSeq(url, 5, Len(url))

\* urljoin(base, url) for an absolute base and a reference without scheme,
\* authority, query or dot segments: an empty reference gives the base, a
\* reference starting with "/" replaces the path, any other is resolved
\* against the base path without its last segment, and empty inner segments
\* are dropped.
UrlJoin(base, url) ==
    IF url = <<>> THEN base
    ELSE LET parts == SplitSlash(UrlPath(base))
             base_parts == IF parts[Len(parts)] # ""
                           THEN SubSeq(parts, 1, Len(parts) - 1) ELSE parts
             joined == base_parts \o SplitSlash(url)
             segments == IF Head(url) = "/" THEN SplitSlash(url)
                         ELSE IF Len(joined) < 2 THEN joined
                         ELSE <<joined[1]>>
                              \o DropEmpty(SubSeq(joined, 2, Len(joined) - 1))
                              \o <<joined[Len(joined)]>>
             path == JoinSlash(segments)
         IN  UrlPrefix(base) \o (IF path = <<>> THEN <<"/">> ELSE path)

\* _normalize_base_url
NormalizeBaseUrl(url) == IF EndsWith(url, "/") THEN url ELSE url \o <<"/">>

\* Mutant: the origin keeps the path prefix of the base URL.
ExtractOriginKeepsPath(url) == url

\* _extract_origin: f"{parts.scheme}://{parts.netloc}/"
ExtractOrigin(url) == UrlPrefix(url) \o <<"/">>

\* robots_url of _ensure_robot_parser (the second assignment is in force).
RobotsUrl(base) ==
    UrlJoin(ExtractOrigin(NormalizeBaseUrl(base)), <<"robots.txt">>)

\* full_url of get_intraday_prices.
FullUrl(base, ep) == UrlJoin(NormalizeBaseUrl(base), LStrip(ep, "/"))

\* config.base_url values of the model.
BaseUrls ==
    { <<"https:", "/", "/", "example.com">>,
      <<"https:", "/", "/", "example.com", "/", "api">>,
      <<"https:", "/", "/", "example.com", "/", "api", "/">>,
      <<"https:", "/", "/", "example.com", "/", "api", "/", "v1">> }

\* config.endpoint values of the URL specification.
UrlEndpoints == { <<"i">>, <<"i", "/">>, <<"/", "i">> }

(***************************************************************************)
(* Cache keys and cache files.                                             *)
(***************************************************************************)
IllegalChars == {"<", ">", ":", "\"", "/", "\\", "|", "?", "*"}
ControlChars == {"\t", "\n"}

RECURSIVE CollapseSpaces(_)
CollapseSpaces(s) ==
    IF s = <<>> THEN <<>>
    ELSE IF Head(s) = " "
         THEN <<"_">> \o CollapseSpaces(LStrip(s, " "))
         ELSE <<Head(s)>> \o CollapseSpaces(Tail(s))

\* _sanitize_for_filename: the three re.sub passes, in order.
SanitizeForFilename(value) ==
    LET pass1 == [i \in 1..Len(value) |->
                    IF value[i] \in IllegalChars THEN "_" ELSE value[i]]
        pass2 == [i \in 1..Len(pass1) |->
                    IF pass1[i] \in ControlChars THEN "_" ELSE pass1[i]]
    IN  CollapseSpaces(pass2)

\* _make_cache_key
MakeCacheKey(parts) ==
    Join([i \in 1..Len(parts) |-> SanitizeForFilename(parts[i])], <<"_">>)
        \o <<".json">>

\* The cache_key get_intraday_prices uses: the sanitized key is computed and
\* then overwritten by the f-string of the raw arguments.
CacheKeyOf(symbol, start, end) ==
    LET cache_key == MakeCacheKey(<<symbol, start, end>>)
    IN  symbol \o <<"_">> \o start \o <<"_">> \o end \o <<".json">>

\* json.dump / json.load on a payload.  A payload is a JSON object taken as
\* a whole (response.json() made it, so it holds JSON values only); its text
\* is the object between braces.
JsonDump(payload) == <<"{", payload, "}">>
JsonLoad(text) == text[2]

\* Mutant: the lookup never finds a usable file.
ReadCacheDisabled(files, cache_key, t) == None

\* Mutant: a file whose age equals the TTL is already expired.
ReadCacheStrict(files, cache_key, t) ==
    IF cache_key \notin DOMAIN files THEN None
    ELSE IF t - files[cache_key].mtime >= cache_ttl_seconds THEN None
    ELSE JsonLoad(files[cache_key].text)

\* _read_cache: None for a missing or expired file, else its content.
ReadCache(files, cache_key, t) ==
    IF cache_key \notin DOMAIN files THEN None
    ELSE IF t - files[cache_key].mtime > cache_ttl_seconds THEN None
    ELSE JsonLoad(files[cache_key].text)

\* Mutant: the payload is returned without being written.
WriteCacheDropped(files, cache_key, payload, t) == files

\* _write_cache: create or overwrite the file; its mtime is the write time.
WriteCache(files, cache_key, payload, t) ==
    [k \in DOMAIN files \cup {cache_key} |->
        IF k = cache_key THEN [text |-> JsonDump(payload), mtime |-> t]
        ELSE files[k]]

Payloads == {"p1", "p2"}

\* (symbol, start, end) arguments whose parts hold the separator "_" or a
\* character that sanitizing turns into it.
KeyTriples ==
    { << <<"A", "_", "B">>, <<"C">>, <<"D">> >>,
      << <<"A">>, <<"B", "_", "C">>, <<"D">> >>,
      << <<"A", ":", "B">>, <<"C">>, <<"D">> >> }

\* (symbol, start, end) arguments of the model's calls.
ArgTriples ==
    { << <<"S">>, <<"1", ":", "0">>, <<"2">> >>,
      << <<"S">>, <<"1">>, <<"2">> >> }

(***************************************************************************)
(* MarketDataScraper: state after construction.                            *)
(***************************************************************************)
NoParser == [set |-> FALSE, rules |-> <<>>]
Parser(rules) == [set |-> TRUE, rules |-> rules]

NoArgs == << <<>>, <<>>, <<>> >>

\* Locals of a caller that has not called get_intraday_prices yet.
IdleCall ==
    [pc |-> "idle", args |-> NoArgs, cache_key |-> <<>>, retries |-> 0,
     wakeAt |-> 0, startedAt |-> 0, hit |-> FALSE, robotsGets |-> 0,
     dataGets |-> 0, reqGets |-> 0, firstGet |-> "none",
     parserAtStart |-> FALSE, cacheAtStart |-> <<>>,
     firstUrl |-> <<>>, firstDataUrl |-> <<>>, response |-> "none",
     sleeps |-> <<>>, serial |-> TRUE]

NoResult == [kind |-> "none", payload |-> None, endedAt |-> 0]

NoPrev ==
    [valid |-> FALSE, args |-> NoArgs, kind |-> "none", hit |-> FALSE,
     dataGets |-> 0, robotsGets |-> 0, endedAt |-> 0, payload |-> None]

\* cache_dir may hold files of an earlier run (mkdir(exist_ok=True)).
InitialCaches ==
    { <<>> } \cup
    { WriteCache(<<>>, CacheKeyOf(a[1], a[2], a[3]), "p0", m) :
        a \in {CHOOSE t \in ArgTriples : Len(t[2]) = 1},
        m \in {0, 0 - cache_ttl_seconds - 1} }

ScraperInit ==
    /\ base_url = <<"https:", "/", "/", "example.com", "/", "api", "/">>
    /\ endpoint \in Endpoints
    /\ robot_parser \in {NoParser} \cup {Parser(p) : p \in Policies}
    /\ last_request_ts = 0
    /\ cache \in InitialCaches
    /\ now = 0
    /\ call = [c \in Callers |-> IdleCall]
    /\ result = [c \in Callers |-> NoResult]
    /\ prev = [c \in Callers |-> NoPrev]
    /\ lastGetAt = -1

(***************************************************************************)
(* get_intraday_prices, one action per step of the call.                   *)
(***************************************************************************)
\* The call returns `payload` or raises `kind`.
Finish(c, locals, kind, payload) ==
    /\ call' = [call EXCEPT ![c] = [locals EXCEPT !.pc = "idle"]]
    /\ result' = [result EXCEPT ![c] =
                    [kind |-> kind, payload |-> payload, endedAt |-> now]]

\* No other caller is inside get_intraday_prices.
OthersIdle(c) == \A u \in Callers \ {c} : call[u].pc = "idle"

\* Entry: build the cache key and look the cache up; a hit returns at once.
GetIntradayPrices(c, symbol, start, end) ==
    /\ call[c].pc = "idle"
    /\ LET cache_key == CacheKeyOf(symbol, start, end)
           cached == ReadCache(cache, cache_key, now)
           locals == [IdleCall EXCEPT
                        !.args = <<symbol, start, end>>,
                        !.cache_key = cache_key,
                        !.startedAt = now,
                        !.hit = (cached # None),
                        !.parserAtStart = robot_parser.set,
                        !.cacheAtStart = cache,
                        !.serial = call[c].serial /\ OthersIdle(c)]
       IN  /\ prev' = [prev EXCEPT ![c] =
                        IF result[c].kind = "none" THEN NoPrev
                        ELSE [valid |-> TRUE, args |-> call[c].args,
                              kind |-> result[c].kind, hit |-> call[c].hit,
                              dataGets |-> call[c].dataGets,
                              robotsGets |-> call[c].robotsGets,
                              endedAt |-> result[c].endedAt,
                              payload |-> result[c].payload]]
           /\ IF cached # None
              THEN Finish(c, locals, "ok", cached)
              ELSE /\ call' = [call EXCEPT ![c] =
                                [locals EXCEPT !.pc = "rate_limit"]]
                   /\ result' = [result EXCEPT ![c] = NoResult]
    /\ UNCHANGED <<base_url, endpoint, robot_parser, last_request_ts, cache, now, lastGetAt>>

\* _enforce_rate_limit up to its sleep: no sleep needed, or go to sleep.
EnforceRateLimit(c) ==
    /\ call[c].pc = "rate_limit"
    /\ LET elapsed == now - last_request_ts
       IN  IF elapsed < rate_limit_seconds
           THEN /\ call' = [call EXCEPT
                             ![c].pc = "rate_sleep",
                             ![c].wakeAt = now + (rate_limit_seconds - elapsed)]
                /\ UNCHANGED last_request_ts
           ELSE /\ last_request_ts' = now
                /\ call' = [call EXCEPT ![c].pc = "ensure_robots"]
    /\ UNCHANGED <<base_url, endpoint, robot_parser, cache, now, result, prev, lastGetAt>>

\* _enforce_rate_limit after its sleep: stamp the last-request time.
RateLimitWake(c) ==
    /\ call[c].pc = "rate_sleep"
    /\ now >= call[c].wakeAt
    /\ last_request_ts' = now
    /\ call' = [call EXCEPT ![c].pc = "ensure_robots"]
    /\ UNCHANGED <<base_url, endpoint, robot_parser, cache, now, result, prev, lastGetAt>>

\* session.get(url): note the request and how it ended ("ok" or "error", a
\* RequestException) on the caller's record; `kind` tells the robots request
\* from the two data requests.
NoteGet(locals, kind, url, outcome) ==
    [locals EXCEPT
        !.robotsGets = IF kind = "robots" THEN @ + 1 ELSE @,
        !.dataGets = IF kind = "robots" THEN @ ELSE @ + 1,
        !.reqGets = IF kind = "robots" THEN @ ELSE @ + 1,
        !.firstUrl = IF locals.firstGet = "none" THEN url ELSE @,
        !.firstDataUrl = IF kind # "robots" /\ locals.dataGets = 0 THEN url ELSE @,
        !.firstGet = IF @ = "none" THEN kind ELSE @,
        !.response = outcome]

\* Mutant: the guard never sees the parser that is set.
ParserLoadedNever(parser) == FALSE

\* "self._robot_parser is not None", the guard of _ensure_robot_parser.
ParserLoaded(parser) == parser.set

\* Mutant: a failed download is swallowed and the call goes on to the
\* permission check with an empty rule list.
RobotsDownloadFailedSwallowed(c) ==
    /\ robot_parser' = Parser(<<>>)
    /\ call' = [call EXCEPT ![c] =
                 [NoteGet(call[c], "robots", RobotsUrl(base_url), "error")
                    EXCEPT !.pc = "check1"]]
    /\ UNCHANGED result

\* The except branch of _ensure_robot_parser: the GET of robots.txt raised a
\* RequestException; RuntimeError leaves the call, the parser stays unset.
RobotsDownloadFailed(c) ==
    /\ Finish(c, NoteGet(call[c], "robots", RobotsUrl(base_url), "error"),
              "RuntimeError_robots", None)
    /\ UNCHANGED robot_parser

\* Mutant: the download is skipped and the check runs without a parser.
EnsureRobotParserSkipped(c) ==
    /\ call[c].pc = "ensure_robots"
    /\ call' = [call EXCEPT ![c].pc = "check1"]
    /\ UNCHANGED <<base_url, endpoint, robot_parser, last_request_ts, cache, now, result,
                   prev, lastGetAt>>

\* _ensure_robot_parser, line 112: nothing when a parser is set, else go on
\* to the download.
EnsureRobotParser(c) ==
    /\ call[c].pc = "ensure_robots"
    /\ call' = [call EXCEPT ![c].pc =
                 IF ParserLoaded(robot_parser) THEN "check1" ELSE "robots_get"]
    /\ UNCHANGED <<base_url, endpoint, robot_parser, last_request_ts, cache, now, result,
                   prev, lastGetAt>>

\* _ensure_robot_parser, lines 114-126: one GET of robots.txt that sets the
\* parser or raises.
DownloadRobots(c) ==
    /\ call[c].pc = "robots_get"
    /\ lastGetAt' = now
    /\ \/ \E rules \in Policies :
            /\ robot_parser' = Parser(rules)
            /\ call' = [call EXCEPT ![c] =
                         [NoteGet(call[c], "robots", RobotsUrl(base_url), "ok")
                            EXCEPT !.pc = "check1"]]
            /\ UNCHANGED result
       \/ RobotsDownloadFailed(c)
    /\ UNCHANGED <<base_url, endpoint, last_request_ts, cache, now, prev>>

\* Mutant: the first permission check is gone, the request goes out and only
\* the later check consults the policy.
CheckEndpointPathSkipped(c) ==
    /\ call[c].pc = "check1"
    /\ call' = [call EXCEPT ![c].pc = "request1", ![c].retries = 0,
                             ![c].reqGets = 0, ![c].sleeps = <<>>]
    /\ UNCHANGED <<base_url, endpoint, robot_parser, last_request_ts, cache, now, result,
                   prev, lastGetAt>>

\* First permission check, on f"/{endpoint.strip('/')}/".
CheckEndpointPath(c) ==
    /\ call[c].pc = "check1"
    /\ IF ~IsAllowed(robot_parser.rules, EndpointPath(endpoint))
       THEN Finish(c, call[c], "PermissionError", None)
       ELSE /\ call' = [call EXCEPT ![c].pc = "request1", ![c].retries = 0,
                                     ![c].reqGets = 0, ![c].sleeps = <<>>]
            /\ UNCHANGED result
    /\ UNCHANGED <<base_url, endpoint, robot_parser, last_request_ts, cache, now, prev, lastGetAt>>

\* Second permission check, on _format_robots_path(endpoint.lstrip("/")).
CheckRobotsPath(c) ==
    /\ call[c].pc = "check2"
    /\ IF ~IsAllowed(robot_parser.rules, RobotsPath(endpoint))
       THEN Finish(c, call[c], "PermissionError", None)
       ELSE /\ call' = [call EXCEPT ![c].pc = "request2", ![c].retries = 0,
                                     ![c].reqGets = 0, ![c].sleeps = <<>>]
            /\ UNCHANGED result
    /\ UNCHANGED <<base_url, endpoint, robot_parser, last_request_ts, cache, now, prev, lastGetAt>>

\* Mutant: the comparison lets one more retry through.
RetriesExhaustedLate(retries) == retries > max_retries + 1

\* "retries > self.config.max_retries": the failure is final.
RetriesExhausted(retries) == retries > max_retries

\* Mutant: every retry waits the same delay.
SleepForFlat(retries) == backoff_factor

\* The delay slept after the retries-th failure.
SleepFor(retries) == backoff_factor * Pow2(retries - 1)

\* The request of _request_with_retries that follows a permission check:
\* request1 is the call on the endpoint path, request2 the call on full_url.
RequestUrl(pc) == IF pc = "request1" THEN "endpoint_path" ELSE "full_url"

\* The url handed to session.get by that request.
RequestTarget(pc) ==
    IF pc = "request1" THEN EndpointPath(endpoint) ELSE FullUrl(base_url, endpoint)

\* Mutant: the payload of the first request is cached as soon as it arrives.
FirstResponseCached(files, cache_key, payload, t) ==
    WriteCache(files, cache_key, payload, t)

\* The statement at line 72 drops what the first request returns: the files
\* stay as they are.
FirstResponseDropped(files, cache_key, payload, t) == files

\* One iteration of the loop of _request_with_retries: a GET that returns the
\* response's JSON, or fails and is retried after a sleep, or fails for good.
RequestAttempt(c) ==
    /\ call[c].pc \in {"request1", "request2"}
    /\ lastGetAt' = now
    /\ LET got == NoteGet(call[c], RequestUrl(call[c].pc),
                           RequestTarget(call[c].pc), "ok")
           failed == NoteGet(call[c], RequestUrl(call[c].pc),
                              RequestTarget(call[c].pc), "error")
           retries == call[c].retries + 1
       IN  \/ \E response_json \in Payloads :
                IF call[c].pc = "request1"
                THEN /\ call' = [call EXCEPT ![c] = [got EXCEPT !.pc = "check2"]]
                     /\ cache' = FirstResponseDropped(cache, call[c].cache_key,
                                                       response_json, now)
                     /\ UNCHANGED result
                ELSE /\ cache' = WriteCache(cache, call[c].cache_key, response_json, now)
                     /\ Finish(c, got, "ok", response_json)
           \/ /\ IF RetriesExhausted(retries)
                 THEN Finish(c, [failed EXCEPT !.retries = retries],
                             "RuntimeError_data", None)
                 ELSE /\ call' = [call EXCEPT ![c] =
                                   [failed EXCEPT
                                      !.retries = retries,
                                      !.wakeAt = now + SleepFor(retries),
                                      !.sleeps = Append(@, SleepFor(retries)),
                                      !.pc = IF call[c].pc = "request1"
                                             THEN "backoff1" ELSE "backoff2"]]
                      /\ UNCHANGED result
              /\ UNCHANGED cache
    /\ UNCHANGED <<base_url, endpoint, robot_parser, last_request_ts, now, prev>>

\* End of the backoff sleep: next iteration of the loop.
BackoffWake(c) ==
    /\ call[c].pc \in {"backoff1", "backoff2"}
    /\ now >= call[c].wakeAt
    /\ call' = [call EXCEPT ![c].pc =
                  IF call[c].pc = "backoff1" THEN "request1" ELSE "request2"]
    /\ UNCHANGED <<base_url, endpoint, robot_parser, last_request_ts, cache, now, result,
                   prev, lastGetAt>>

Sleeping(c) ==
    /\ call[c].pc \in {"rate_sleep", "backoff1", "backoff2"}
    /\ now < call[c].wakeAt

\* Time passes while every caller is between calls or asleep.
Tick ==
    /\ now < MaxTime
    /\ \A c \in Callers : call[c].pc = "idle" \/ Sleeping(c)
    /\ now' = now + 1
    /\ UNCHANGED <<base_url, endpoint, robot_parser, last_request_ts, cache, call, result,
                   prev, lastGetAt>>

\* The steps of a call after its entry.
CallStep(c) ==
    \/ EnforceRateLimit(c)
    \/ RateLimitWake(c)
    \/ EnsureRobotParser(c)
    \/ DownloadRobots(c)
    \/ CheckEndpointPath(c)
    \/ RequestAttempt(c)
    \/ BackoffWake(c)
    \/ CheckRobotsPath(c)

ScraperStep(c) ==
    \/ \E a \in ArgTriples : GetIntradayPrices(c, a[1], a[2], a[3])
    \/ CallStep(c)

(***************************************************************************)
(* RiskFilter.                                                             *)
(***************************************************************************)
MaxPositionLimit == 2
MaxTradesLimit == 2
MaxQuantity == 2
NotionalLimits == {0, 2, 6}
Prices == {-3, 0, 1, 3}

Abs(x) == IF x < 0 THEN 0 - x ELSE x

\* Candidate orders: a mapping that may lack the "quantity" key.
Orders ==
    {[symbol |-> "S", quantity |-> q] : q \in (0 - MaxQuantity)..MaxQuantity}
        \cup {[symbol |-> "S"]}

\* int(order.get("quantity", 0)); the callers pass integer quantities.
OrderQuantity(order) ==
    IF "quantity" \in DOMAIN order THEN order.quantity ELSE 0

\* Mutant: the daily-trade check runs first.
ValidateOutcomeDailyFirst(config, count, order, current_position, price) ==
    LET projected_position == current_position + OrderQuantity(order)
        projected_notional == Abs(projected_position * price)
    IN  IF count >= config.max_daily_trades
        THEN "daily_trade_limit"
        ELSE IF Abs(projected_position) > config.max_position
        THEN "position_limit"
        ELSE IF projected_notional > config.max_notional
        THEN "notional_limit"
        ELSE "ok"

\* Mutant: the daily-trade check compares with > instead of >=.
ValidateOutcomeOffByOne(config, count, order, current_position, price) ==
    LET projected_position == current_position + OrderQuantity(order)
        projected_notional == Abs(projected_position * price)
    IN  IF Abs(projected_position) > config.max_position
        THEN "position_limit"
        ELSE IF projected_notional > config.max_notional
        THEN "notional_limit"
        ELSE IF count > config.max_daily_trades
        THEN "daily_trade_limit"
        ELSE "ok"

\* The checks of validate, in the order of the code; "ok" when none raises.
ValidateOutcome(config, count, order, current_position, price) ==
    LET projected_position == current_position + OrderQuantity(order)
        projected_notional == Abs(projected_position * price)
    IN  IF Abs(projected_position) > config.max_position
        THEN "position_limit"
        ELSE IF projected_notional > config.max_notional
        THEN "notional_limit"
        ELSE IF count >= config.max_daily_trades
        THEN "daily_trade_limit"
        ELSE "ok"

\* Mutant: the counter is incremented before the checks.
CountAfterValidateAlways(count, outcome) == count + 1

\* Mutant: a validate that succeeds counts double.
CountAfterValidateTwice(count, outcome) ==
    IF outcome = "ok" THEN count + 2 ELSE count

\* The counter after validate: incremented on the path that raises nothing.
CountAfterValidate(count, outcome) ==
    IF outcome = "ok" THEN count + 1 ELSE count

NoRiskCall ==
    [op |-> "none", order |-> [symbol |-> "S"], current_position |-> 0,
     price |-> 0, countBefore |-> 0, okBefore |-> 0, outcome |-> "none"]

RiskConfigs ==
    [max_position : 0..MaxPositionLimit,
     max_notional : NotionalLimits,
     max_daily_trades : 0..MaxTradesLimit]

\* RiskFilter.__init__
RiskInit ==
    /\ riskConfig \in RiskConfigs
    /\ daily_trade_count = 0
    /\ riskResult = NoRiskCall
    /\ okSinceReset = 0

\* RiskFilter.validate
Validate(order, current_position, price) ==
    LET outcome == ValidateOutcome(riskConfig, daily_trade_count, order,
                                   current_position, price)
    IN  /\ daily_trade_count' = CountAfterValidate(daily_trade_count, outcome)
        /\ okSinceReset' = IF outcome = "ok" THEN okSinceReset + 1 ELSE okSinceReset
        /\ riskResult' = [op |-> "validate", order |-> order,
                          current_position |-> current_position, price |-> price,
                          countBefore |-> daily_trade_count,
                          okBefore |-> okSinceReset, outcome |-> outcome]
        /\ UNCHANGED riskConfig

\* Mutant: the reset leaves the counter as it is.
ResetDailyCountersKept ==
    /\ daily_trade_count' = daily_trade_count
    /\ okSinceReset' = 0
    /\ riskResult' = [NoRiskCall EXCEPT !.op = "reset",
                                        !.countBefore = daily_trade_count,
                                        !.okBefore = okSinceReset]
    /\ UNCHANGED riskConfig

\* RiskFilter.reset_daily_counters
ResetDailyCounters ==
    /\ daily_trade_count' = 0
    /\ okSinceReset' = 0
    /\ riskResult' = [NoRiskCall EXCEPT !.op = "reset",
                                        !.countBefore = daily_trade_count,
                                        !.okBefore = okSinceReset]
    /\ UNCHANGED riskConfig

RiskQuiet ==
    /\ riskConfig = [max_position |-> 0, max_notional |-> 0, max_daily_trades |-> 0]
    /\ daily_trade_count = 0
    /\ riskResult = NoRiskCall
    /\ okSinceReset = 0

(***************************************************************************)
(* Two threads on one RiskFilter.  validate touches the shared counter     *)
(* three times: the read of the comparison at line 46, and the read and    *)
(* the write of the += at line 49; a thread switch can fall between them.  *)
(***************************************************************************)
Threads == {1, 2}
MaxThreadCalls == 4

\* Lines 37-44: the checks that use the arguments and the frozen config only.
LocalChecks(config, order, current_position, price) ==
    LET projected_position == current_position + OrderQuantity(order)
        projected_notional == Abs(projected_position * price)
    IN  IF Abs(projected_position) > config.max_position
        THEN "position_limit"
        ELSE IF projected_notional > config.max_notional
        THEN "notional_limit"
        ELSE "ok"

IdleThread == [pc |-> "idle", loaded |-> 0, outcome |-> "none"]

ThreadQuiet ==
    /\ riskThread = [t \in Threads |-> IdleThread]
    /\ threadCalls = 0
    /\ overlapped = FALSE

OthersRunning(t) == \E u \in Threads \ {t} : riskThread[u].pc # "idle"

\* validate is entered and runs lines 37-44.
ThreadEnter(t, order, current_position, price) ==
    LET outcome == LocalChecks(riskConfig, order, current_position, price)
    IN  /\ riskThread[t].pc = "idle"
        /\ threadCalls < MaxThreadCalls
        /\ threadCalls' = threadCalls + 1
        /\ overlapped' = (overlapped \/ OthersRunning(t))
        /\ riskThread' = [riskThread EXCEPT ![t] =
                             IF outcome = "ok"
                             THEN [pc |-> "daily_check", loaded |-> 0, outcome |-> "none"]
                             ELSE [pc |-> "idle", loaded |-> 0, outcome |-> outcome]]
        /\ UNCHANGED riskVars

\* Lines 46-47: the counter is read and compared with max_daily_trades.
ThreadDailyCheck(t) ==
    /\ riskThread[t].pc = "daily_check"
    /\ riskThread' = [riskThread EXCEPT ![t] =
                         IF daily_trade_count >= riskConfig.max_daily_trades
                         THEN [pc |-> "idle", loaded |-> 0, outcome |-> "daily_trade_limit"]
                         ELSE [pc |-> "load", loaded |-> 0, outcome |-> "none"]]
    /\ UNCHANGED <<riskVars, threadCalls, overlapped>>

\* Line 49, first half: the counter is read.
ThreadLoad(t) ==
    /\ riskThread[t].pc = "load"
    /\ riskThread' = [riskThread EXCEPT ![t] =
                         [pc |-> "store", loaded |-> daily_trade_count, outcome |-> "none"]]
    /\ UNCHANGED <<riskVars, threadCalls, overlapped>>

\* Mutant: validate returns without writing the counter.
ThreadStoreSkipped(t) ==
    /\ riskThread[t].pc = "store"
    /\ okSinceReset' = okSinceReset + 1
    /\ riskThread' = [riskThread EXCEPT ![t] =
                         [pc |-> "idle", loaded |-> 0, outcome |-> "ok"]]
    /\ UNCHANGED <<daily_trade_count, riskConfig, riskResult, threadCalls, overlapped>>

\* Line 49, second half: the value read plus one is written, validate returns.
ThreadStore(t) ==
    /\ riskThread[t].pc = "store"
    /\ daily_trade_count' = riskThread[t].loaded + 1
    /\ okSinceReset' = okSinceReset + 1
    /\ riskThread' = [riskThread EXCEPT ![t] =
                         [pc |-> "idle", loaded |-> 0, outcome |-> "ok"]]
    /\ UNCHANGED <<riskConfig, riskResult, threadCalls, overlapped>>

\* reset_daily_counters called by a thread: one write.
ThreadReset(t) ==
    /\ riskThread[t].pc = "idle"
    /\ threadCalls < MaxThreadCalls
    /\ threadCalls' = threadCalls + 1
    /\ overlapped' = (overlapped \/ OthersRunning(t))
    /\ daily_trade_count' = 0
    /\ okSinceReset' = 0
    /\ riskThread' = [riskThread EXCEPT ![t] = [IdleThread EXCEPT !.outcome = "reset"]]
    /\ UNCHANGED <<riskConfig, riskResult>>

(***************************************************************************)
(* LiveExecutor.                                                           *)
(***************************************************************************)
MaxBlobLen == 3

Unset == [set |-> FALSE, value |-> <<>>]
EnvValue(v) == [set |-> TRUE, value |-> v]

\* Values of EXECUTE_LIVE.
Flags ==
    {Unset} \cup {EnvValue(v) : v \in {<<"t", "r", "u", "e">>, <<"T", "r", "u", "e">>,
                                       <<"1">>, <<>>}}

BlobChars == {"[", "]", "{", "}", "1"}

RECURSIVE SeqsUpTo(_, _)
SeqsUpTo(S, n) ==
    IF n = 0 THEN {<<>>}
    ELSE LET shorter == SeqsUpTo(S, n - 1)
         IN  shorter \cup {Append(t, x) : t \in shorter, x \in S}

\* Values of APPROVAL_JSON.
Blobs == {Unset} \cup {EnvValue(v) : v \in SeqsUpTo(BlobChars, MaxBlobLen)}

\* json.loads accepts the text: over BlobChars a JSON value is a number of
\* digits, the empty object, or an array of nothing or of one value.
RECURSIVE JsonLoads(_)
JsonLoads(text) ==
    \/ text # <<>> /\ \A i \in 1..Len(text) : text[i] = "1"
    \/ text = <<"{", "}">>
    \/ /\ Len(text) >= 2
       /\ text[1] = "["
       /\ text[Len(text)] = "]"
       /\ Len(text) = 2 \/ JsonLoads(SubSeq(text, 2, Len(text) - 1))

\* Mutant: the approved path places the order and returns a report.
LiveExecuteOutcomeFills(environ) ==
    IF environ.EXECUTE_LIVE # EnvValue(<<"t", "r", "u", "e">>)
    THEN "LiveExecutionNotApproved: requires EXECUTE_LIVE=true"
    ELSE IF ~environ.APPROVAL_JSON.set \/ environ.APPROVAL_JSON.value = <<>>
    THEN "LiveExecutionNotApproved: requires APPROVAL_JSON"
    ELSE IF ~JsonLoads(environ.APPROVAL_JSON.value)
    THEN "LiveExecutionNotApproved: APPROVAL_JSON is not valid JSON"
    ELSE "ExecutionReport"

\* LiveExecutor.execute: the exception it raises.
LiveExecuteOutcome(environ) ==
    IF environ.EXECUTE_LIVE # EnvValue(<<"t", "r", "u", "e">>)
    THEN "LiveExecutionNotApproved: requires EXECUTE_LIVE=true"
    ELSE IF ~environ.APPROVAL_JSON.set \/ environ.APPROVAL_JSON.value = <<>>
    THEN "LiveExecutionNotApproved: requires APPROVAL_JSON"
    ELSE IF ~JsonLoads(environ.APPROVAL_JSON.value)
    THEN "LiveExecutionNotApproved: APPROVAL_JSON is not valid JSON"
    ELSE "NotImplementedError"

\* No execute call since the environment last changed.
NoLiveCall == "none"

LiveInit ==
    /\ env \in [EXECUTE_LIVE : Flags, APPROVAL_JSON : Blobs]
    /\ liveResult = NoLiveCall

LiveQuiet ==
    /\ env = [EXECUTE_LIVE |-> Unset, APPROVAL_JSON |-> Unset]
    /\ liveResult = NoLiveCall

\* The environment is set between calls; the outcome of the last call was
\* observed under the old environment and is dropped.
SetEnv(name, v) ==
    /\ env' = [env EXCEPT ![name] = v]
    /\ liveResult' = NoLiveCall

\* LiveExecutor.execute(order, price)
LiveExecute ==
    /\ liveResult' = LiveExecuteOutcome(env)
    /\ UNCHANGED env

(***************************************************************************)
(* Specifications: one per component, the others at rest.                  *)
(***************************************************************************)
ScraperQuiet ==
    /\ base_url = <<"https:", "/", "/", "example.com", "/", "api", "/">>
    /\ endpoint = <<"i">>
    /\ robot_parser = NoParser
    /\ last_request_ts = 0
    /\ cache = <<>>
    /\ now = 0
    /\ call = [c \in Callers |-> IdleCall]
    /\ result = [c \in Callers |-> NoResult]
    /\ prev = [c \in Callers |-> NoPrev]
    /\ lastGetAt = -1

(***************************************************************************)
(* MockExecutor.                                                           *)
(***************************************************************************)
MaxExecutes == 3

\* OrderRequest values and fill prices of the model.
MockOrders ==
    [symbol : {"SPY"}, side : {"buy", "sell"}, quantity : 1..MaxQuantity]
MockPrices == {1, 3}

NoReport == [status |-> "none"]

\* A line an earlier process left in the file.
OldLine ==
    [symbol |-> "OLD", side |-> "sell", quantity |-> 1, average_price |-> 1,
     status |-> "filled"]

\* ExecutionReport as execute builds it.
Report(order, price) ==
    [order |-> order, status |-> "filled", filled_quantity |-> order.quantity,
     average_price |-> price]

\* The payload _write_audit_log serialises to one line (its timestamp and
\* metadata keys carry the clock and the order's free-form metadata and are
\* not modelled).
AuditLine(report) ==
    [symbol |-> report.order.symbol, side |-> report.order.side,
     quantity |-> report.filled_quantity,
     average_price |-> report.average_price, status |-> report.status]

\* Mutant: the file is opened with mode "w".
WriteAuditLogTruncating(log, report) == <<AuditLine(report)>>

\* _write_audit_log: the file is opened with mode "a".
WriteAuditLog(log, report) == Append(log, AuditLine(report))

MockInit ==
    /\ audit_log \in {<<>>, <<OldLine>>}
    /\ log_at_start = audit_log
    /\ executions = <<>>
    /\ mockReport = NoReport

MockQuiet ==
    /\ audit_log = <<>>
    /\ log_at_start = <<>>
    /\ executions = <<>>
    /\ mockReport = NoReport

\* MockExecutor.execute
MockExecute(order, price) ==
    /\ Len(executions) < MaxExecutes
    /\ LET report == Report(order, price)
       IN  /\ audit_log' = WriteAuditLog(audit_log, report)
           /\ mockReport' = report
    /\ executions' = Append(executions, <<order, price>>)
    /\ UNCHANGED log_at_start

(***************************************************************************)
(* momentum_signal.                                                        *)
(***************************************************************************)
DefaultShortWindow == 3
DefaultLongWindow == 5

RECURSIVE Sum(_)
Sum(series) == IF series = <<>> THEN 0 ELSE Head(series) + Sum(Tail(series))

\* prices[-n:] : the last n items, the whole list when n is 0 or exceeds
\* its length, and the items after the first -n when n is negative.
LastN(prices, n) ==
    IF n = 0 \/ n >= Len(prices) THEN prices
    ELSE IF n > 0 THEN SubSeq(prices, Len(prices) - n + 1, Len(prices))
    ELSE SubSeq(prices, (0 - n) + 1, Len(prices))

\* Mutant: the short average is taken over the first prices of the series.
ShortSeriesOldest(prices, short_window) == SubSeq(prices, 1, short_window)

\* The series of short_ma.
ShortSeries(prices, short_window) == LastN(prices, short_window)

\* momentum_signal: both failures are ValueError, told apart by message; the
\* two means are compared exactly (sum_s / n_s against sum_l / n_l by cross
\* multiplication; the windows are positive here, so both series are
\* non-empty).
MomentumSignal(prices, short_window, long_window) ==
    IF long_window <= short_window
    THEN [kind |-> "ValueError_windows", signal |-> 0]
    ELSE IF Len(prices) < long_window
    THEN [kind |-> "ValueError_data", signal |-> 0]
    ELSE LET short == ShortSeries(prices, short_window)
             long == LastN(prices, long_window)
             short_ma == Sum(short) * Len(long)
             long_ma == Sum(long) * Len(short)
         IN  [kind |-> "ok",
              signal |-> IF short_ma > long_ma THEN 1
                         ELSE IF short_ma < long_ma THEN 0 - 1
                         ELSE 0]

MaxSeriesLen == 5
MaxWindow == 4
PriceValues == {1, 2, 3, 4, 5}

RECURSIVE SeqsOfLen(_, _)
SeqsOfLen(S, n) ==
    IF n = 0 THEN {<<>>}
    ELSE {Append(q, x) : q \in SeqsOfLen(S, n - 1), x \in S}

\* Arguments of momentum_signal: any series up to MaxSeriesLen prices, and
\* windows that are positive, as the signature's contract has them.
SignalInputs ==
    [prices : UNION {SeqsOfLen(PriceValues, n) : n \in 0..MaxSeriesLen},
     short_window : 1..MaxWindow, long_window : 1..MaxWindow]

NoSignal == [kind |-> "none", signal |-> 0]

SignalInit ==
    /\ signalInput \in SignalInputs
    /\ signalResult = NoSignal

SignalQuiet ==
    /\ signalInput = [prices |-> <<>>, short_window |-> 1, long_window |-> 1]
    /\ signalResult = NoSignal

\* One call of momentum_signal on the arguments.
CallMomentumSignal ==
    /\ signalResult = NoSignal
    /\ signalResult' = MomentumSignal(signalInput.prices, signalInput.short_window,
                                      signalInput.long_window)
    /\ UNCHANGED signalInput

(***************************************************************************)
(* normalize_ohlc_rows.  A raw timestamp is an ISO date-time `at` followed  *)
(* by a suffix: "" (no offset), "Z", "+00:00", or "?" for text that is no   *)
(* ISO date-time.  A raw number is Num(n), and NotNum stands for a value   *)
(* float() rejects.  Of the five numeric fields only close is carried; the *)
(* other four are converted the same way.                                  *)
(***************************************************************************)
Num(n) == [num |-> TRUE, value |-> n]
NotNum == [num |-> FALSE, value |-> 0]

\* str(row["timestamp"]).replace("Z", "+00:00")
ReplaceZ(timestamp) ==
    [timestamp EXCEPT !.suffix = IF @ = "Z" THEN "+00:00" ELSE @]

\* datetime.fromisoformat: an aware datetime for a text with an offset, a
\* naive one for a text without, ValueError for anything else.
FromIsoFormat(text) ==
    IF text.suffix = "+00:00" THEN [ok |-> TRUE, at |-> text.at, aware |-> TRUE]
    ELSE IF text.suffix = "" THEN [ok |-> TRUE, at |-> text.at, aware |-> FALSE]
    ELSE [ok |-> FALSE, at |-> 0, aware |-> FALSE]

\* The try block for one row: KeyError, ValueError and TypeError all end the
\* call with ValueError.
RowConverts(row) ==
    /\ "timestamp" \in DOMAIN row
    /\ FromIsoFormat(ReplaceZ(row.timestamp)).ok
    /\ "close" \in DOMAIN row
    /\ row.close.num

NormalizedRow(row) ==
    LET timestamp == FromIsoFormat(ReplaceZ(row.timestamp))
    IN  [timestamp |-> [at |-> timestamp.at, aware |-> timestamp.aware],
         close |-> row.close.value]

\* list.sort(key=timestamp), stable: the row goes behind every row that is
\* not later than it.
RECURSIVE InsertByTimestamp(_, _)
InsertByTimestamp(sorted, row) ==
    IF sorted = <<>> THEN <<row>>
    ELSE IF sorted[Len(sorted)].timestamp.at <= row.timestamp.at
    THEN Append(sorted, row)
    ELSE Append(InsertByTimestamp(SubSeq(sorted, 1, Len(sorted) - 1), row),
                sorted[Len(sorted)])

RECURSIVE SortByTimestamp(_)
SortByTimestamp(rows) ==
    IF rows = <<>> THEN <<>>
    ELSE InsertByTimestamp(SortByTimestamp(SubSeq(rows, 1, Len(rows) - 1)),
                           rows[Len(rows)])

\* Comparing a naive datetime with an aware one raises TypeError, and a sort
\* of a list that holds both has to compare such a pair.
SortRaises(rows) ==
    \E i, j \in 1..Len(rows) : rows[i].timestamp.aware /\ ~rows[j].timestamp.aware

\* normalize_ohlc_rows: the loop over the rows, then the sort, which is
\* outside the try block.
NormalizeOhlcRows(rows) ==
    IF \E i \in 1..Len(rows) : ~RowConverts(rows[i])
    THEN [kind |-> "ValueError_row", rows |-> <<>>]
    ELSE LET normalized == [i \in 1..Len(rows) |-> NormalizedRow(rows[i])]
         IN  IF SortRaises(normalized)
             THEN [kind |-> "TypeError_sort", rows |-> <<>>]
             ELSE [kind |-> "ok", rows |-> SortByTimestamp(normalized)]

MaxRows == 3

\* Raw rows: well-formed ones, and one of each malformed kind.
RawRows ==
    [timestamp : [at : {1, 2}, suffix : {"", "Z", "?"}],
     close : {Num(1), Num(2), NotNum}]
        \cup [timestamp : [at : {1, 2}, suffix : {"", "Z", "?"}]]

NoNormCall == [kind |-> "none", rows |-> <<>>]

NormInit ==
    /\ normInput \in UNION {SeqsOfLen(RawRows, n) : n \in 0..MaxRows}
    /\ normResult = NoNormCall

NormQuiet ==
    /\ normInput = <<>>
    /\ normResult = NoNormCall

\* One call of normalize_ohlc_rows on the rows.
CallNormalizeOhlcRows ==
    /\ normResult = NoNormCall
    /\ normResult' = NormalizeOhlcRows(normInput)
    /\ UNCHANGED normInput

(***************************************************************************)
(* run_pipeline, one action per stage: up to the signal, the risk check,   *)
(* the mock execution.                                                     *)
(***************************************************************************)
MaxBars == 5

\* RiskConfig of run_pipeline.
PipelineRiskConfig ==
    [max_position |-> 10, max_notional |-> 10000, max_daily_trades |-> 5]

\* Close series of n bars: the first close is far below, just below or just
\* above max_notional, and each bar closes one lower, level or one higher
\* than the bar before.
FirstCloses == {10, 9997, 10005}

RECURSIVE PipelineCloses(_)
PipelineCloses(n) ==
    IF n = 1 THEN {<<c>> : c \in FirstCloses}
    ELSE {Append(w, w[Len(w)] + d) : w \in PipelineCloses(n - 1), d \in {0 - 1, 0, 1}}

\* raw["prices"]: MaxBars - 1 or MaxBars bars, delivered oldest first or
\* newest first, the last one possibly without its close.
PipelineRows ==
    LET closes == PipelineCloses(MaxBars - 1) \cup PipelineCloses(MaxBars)
        at(i) == [at |-> i, suffix |-> "Z"]
        oldestFirst(cs) ==
            [i \in 1..Len(cs) |-> [timestamp |-> at(i), close |-> Num(cs[i])]]
        newestFirst(cs) ==
            [i \in 1..Len(cs) |->
                [timestamp |-> at(Len(cs) + 1 - i), close |-> Num(cs[i])]]
        broken(cs) ==
            [i \in 1..Len(cs) |-> IF i = Len(cs) THEN [timestamp |-> at(i)]
                                  ELSE [timestamp |-> at(i), close |-> Num(cs[i])]]
    IN  {oldestFirst(cs) : cs \in closes}
          \cup {newestFirst(cs) : cs \in closes}
          \cup {broken(cs) : cs \in closes}

NoRun ==
    [pc |-> "idle", outcome |-> "none", closes |-> <<>>, signal |-> 0,
     risk |-> "none", logBefore |-> <<>>, runs |-> 0]

PipelineInit ==
    /\ pipelineInput \in [symbol : {"SPY"}, rows : PipelineRows]
    /\ pipelineRun = [NoRun EXCEPT !.logBefore = audit_log]

PipelineQuiet ==
    /\ pipelineInput = [symbol |-> "SPY", rows |-> <<>>]
    /\ pipelineRun = NoRun

\* run_pipeline up to `if desired_quantity == 0: return`.
PipelineSignal ==
    /\ pipelineRun.pc = "idle"
    /\ pipelineRun.runs < MaxExecutes
    /\ LET normalized == NormalizeOhlcRows(pipelineInput.rows)
           closes == [i \in 1..Len(normalized.rows) |-> normalized.rows[i].close]
           signal == MomentumSignal(closes, DefaultShortWindow, DefaultLongWindow)
           run == [NoRun EXCEPT !.logBefore = audit_log,
                                !.runs = pipelineRun.runs + 1]
       IN  pipelineRun' =
             IF normalized.kind # "ok"
             THEN [run EXCEPT !.outcome = normalized.kind]
             ELSE IF signal.kind # "ok"
             THEN [run EXCEPT !.outcome = signal.kind, !.closes = closes]
             ELSE IF signal.signal = 0
             THEN [run EXCEPT !.outcome = "no_trade", !.closes = closes]
             ELSE [run EXCEPT !.pc = "validate", !.closes = closes,
                              !.signal = signal.signal]
    /\ UNCHANGED <<pipelineInput, mockVars>>

\* Mutant: a RiskViolation is logged and the run goes on.
RiskApprovedAlways(outcome) == TRUE

\* The try/except around risk_filter.validate.
RiskApproved(outcome) == outcome = "ok"

\* risk_filter.validate on the run's own, new RiskFilter.
PipelineValidate ==
    /\ pipelineRun.pc = "validate"
    /\ LET order == [symbol |-> pipelineInput.symbol, quantity |-> pipelineRun.signal]
           price == pipelineRun.closes[Len(pipelineRun.closes)]
           outcome == ValidateOutcome(PipelineRiskConfig, 0, order, 0, price)
       IN  pipelineRun' =
             IF RiskApproved(outcome)
             THEN [pipelineRun EXCEPT !.pc = "execute", !.risk = outcome]
             ELSE [pipelineRun EXCEPT !.pc = "idle", !.risk = outcome,
                                      !.outcome = "blocked"]
    /\ UNCHANGED <<pipelineInput, mockVars>>

\* MockExecutor().execute(OrderRequest(...), price=closes[-1])
PipelineExecute ==
    /\ pipelineRun.pc = "execute"
    /\ LET desired_quantity == pipelineRun.signal
           order == [symbol |-> pipelineInput.symbol,
                     side |-> IF desired_quantity > 0 THEN "buy" ELSE "sell",
                     quantity |-> Abs(desired_quantity)]
       IN  MockExecute(order, pipelineRun.closes[Len(pipelineRun.closes)])
    /\ pipelineRun' = [pipelineRun EXCEPT !.pc = "idle", !.outcome = "filled"]
    /\ UNCHANGED pipelineInput

\* The scraper driven by one caller.
Init == ScraperInit /\ RiskQuiet /\ LiveQuiet /\ MockQuiet /\ PipelineQuiet /\ SignalQuiet /\ NormQuiet /\ ThreadQuiet

Next ==
    \/ ScraperStep(1) /\ UNCHANGED <<riskVars, liveVars, mockVars, pipelineVars, signalVars, normVars, threadVars>>
    \/ Tick /\ UNCHANGED <<riskVars, liveVars, mockVars, pipelineVars, signalVars, normVars, threadVars>>

Spec == Init /\ [][Next]_vars

\* Two callers on one fetcher, each step of either interleaved freely.
InitConcurrent ==
    /\ ScraperQuiet /\ RiskQuiet /\ LiveQuiet /\ MockQuiet
    /\ PipelineQuiet /\ SignalQuiet /\ NormQuiet /\ ThreadQuiet

\* Each caller makes one call.
OneCallOf(c) == call[c].pc = "idle" => result[c].kind = "none"

NextConcurrent ==
    /\ \/ \E c \in Callers : OneCallOf(c) /\ ScraperStep(c)
       \/ Tick
    /\ UNCHANGED <<riskVars, liveVars, mockVars, pipelineVars, signalVars, normVars, threadVars>>

SpecConcurrent == InitConcurrent /\ [][NextConcurrent]_vars

\* Two calls of one caller on a fetcher with an empty cache directory, over
\* the request triples of KeyTriples.
InitKeys ==
    /\ base_url = <<"https:", "/", "/", "example.com", "/", "api", "/">>
    /\ endpoint = <<"i">>
    /\ robot_parser \in {NoParser, Parser(<<>>)}
    /\ last_request_ts = 0
    /\ cache = <<>>
    /\ now = 0
    /\ call = [c \in Callers |-> IdleCall]
    /\ result = [c \in Callers |-> NoResult]
    /\ prev = [c \in Callers |-> NoPrev]
    /\ lastGetAt = -1
    /\ RiskQuiet /\ LiveQuiet /\ MockQuiet
    /\ PipelineQuiet /\ SignalQuiet /\ NormQuiet /\ ThreadQuiet

NextKeys ==
    /\ \/ /\ ~prev[1].valid
          /\ \E a \in KeyTriples : GetIntradayPrices(1, a[1], a[2], a[3])
       \/ CallStep(1)
       \/ Tick
    /\ UNCHANGED <<riskVars, liveVars, mockVars, pipelineVars, signalVars, normVars, threadVars>>

SpecKeys == InitKeys /\ [][NextKeys]_vars

\* The first call on a freshly constructed fetcher, over the configured URLs.
InitUrl ==
    /\ base_url \in BaseUrls
    /\ endpoint \in UrlEndpoints
    /\ robot_parser \in {NoParser} \cup {Parser(p) : p \in Policies}
    /\ last_request_ts = 0
    /\ cache = <<>>
    /\ now = 0
    /\ call = [c \in Callers |-> IdleCall]
    /\ result = [c \in Callers |-> NoResult]
    /\ prev = [c \in Callers |-> NoPrev]
    /\ lastGetAt = -1
    /\ RiskQuiet
    /\ LiveQuiet
    /\ MockQuiet /\ PipelineQuiet /\ SignalQuiet /\ NormQuiet /\ ThreadQuiet

FirstCall == call[1].pc # "idle" \/ result[1].kind = "none"

NextUrl ==
    \/ FirstCall /\ ScraperStep(1) /\ UNCHANGED <<riskVars, liveVars, mockVars, pipelineVars, signalVars, normVars, threadVars>>
    \/ Tick /\ UNCHANGED <<riskVars, liveVars, mockVars, pipelineVars, signalVars, normVars, threadVars>>

SpecUrl == InitUrl /\ [][NextUrl]_vars

\* The risk filter driven by one caller.
InitRisk == ScraperQuiet /\ RiskInit /\ LiveQuiet /\ MockQuiet /\ PipelineQuiet /\ SignalQuiet /\ NormQuiet /\ ThreadQuiet

NextRisk ==
    \/ /\ \E order \in Orders, current_position \in (0 - MaxPositionLimit)..MaxPositionLimit,
            price \in Prices : Validate(order, current_position, price)
       /\ UNCHANGED <<scraperVars, liveVars, mockVars, pipelineVars, signalVars, normVars, threadVars>>
    \/ ResetDailyCounters /\ UNCHANGED <<scraperVars, liveVars, mockVars, pipelineVars, signalVars, normVars, threadVars>>

SpecRisk == InitRisk /\ [][NextRisk]_vars

\* The live executor under every environment.
InitLive == ScraperQuiet /\ RiskQuiet /\ LiveInit /\ MockQuiet /\ PipelineQuiet /\ SignalQuiet /\ NormQuiet /\ ThreadQuiet

NextLive ==
    \/ /\ \E v \in Flags : SetEnv("EXECUTE_LIVE", v)
       /\ UNCHANGED <<scraperVars, riskVars, mockVars, pipelineVars, signalVars, normVars, threadVars>>
    \/ /\ \E v \in Blobs : SetEnv("APPROVAL_JSON", v)
       /\ UNCHANGED <<scraperVars, riskVars, mockVars, pipelineVars, signalVars, normVars, threadVars>>
    \/ LiveExecute /\ UNCHANGED <<scraperVars, riskVars, mockVars, pipelineVars, signalVars, normVars, threadVars>>

SpecLive == InitLive /\ [][NextLive]_vars

\* The mock executor on a log file that may already hold lines.
InitMock == ScraperQuiet /\ RiskQuiet /\ LiveQuiet /\ MockInit /\ PipelineQuiet /\ SignalQuiet /\ NormQuiet /\ ThreadQuiet

NextMock ==
    /\ \E order \in MockOrders, price \in MockPrices : MockExecute(order, price)
    /\ UNCHANGED <<scraperVars, riskVars, liveVars, pipelineVars, signalVars, normVars, threadVars>>

SpecMock == InitMock /\ [][NextMock]_vars

\* run_pipeline, run again and again on the same rows.
InitPipeline ==
    ScraperQuiet /\ RiskQuiet /\ LiveQuiet /\ MockInit /\ PipelineInit /\ SignalQuiet /\ NormQuiet /\ ThreadQuiet

NextPipeline ==
    \/ PipelineSignal /\ UNCHANGED <<scraperVars, riskVars, liveVars, signalVars, normVars, threadVars>>
    \/ PipelineValidate /\ UNCHANGED <<scraperVars, riskVars, liveVars, signalVars, normVars, threadVars>>
    \/ PipelineExecute /\ UNCHANGED <<scraperVars, riskVars, liveVars, signalVars, normVars, threadVars>>

SpecPipeline == InitPipeline /\ [][NextPipeline]_vars

\* momentum_signal on every argument triple.
InitSignal ==
    ScraperQuiet /\ RiskQuiet /\ LiveQuiet /\ MockQuiet /\ PipelineQuiet /\ SignalInit
        /\ NormQuiet /\ ThreadQuiet

NextSignal ==
    CallMomentumSignal /\ UNCHANGED <<scraperVars, riskVars, liveVars, mockVars, pipelineVars, normVars, threadVars>>

SpecSignal == InitSignal /\ [][NextSignal]_vars

\* normalize_ohlc_rows on every batch of raw rows.
InitNormalize ==
    /\ ScraperQuiet /\ RiskQuiet /\ LiveQuiet /\ MockQuiet
    /\ PipelineQuiet /\ SignalQuiet /\ NormInit /\ ThreadQuiet

NextNormalize ==
    /\ CallNormalizeOhlcRows
    /\ UNCHANGED <<scraperVars, riskVars, liveVars, mockVars, pipelineVars, signalVars,
                   threadVars>>

SpecNormalize == InitNormalize /\ [][NextNormalize]_vars

\* Two threads on one RiskFilter, interleaved at the accesses of the counter.
InitRiskThreads ==
    /\ ScraperQuiet /\ RiskInit /\ LiveQuiet /\ MockQuiet
    /\ PipelineQuiet /\ SignalQuiet /\ NormQuiet /\ ThreadQuiet

NextRiskThreads ==
    /\ \E t \in Threads :
          \/ \E order \in Orders, current_position \in (0 - MaxPositionLimit)..MaxPositionLimit,
                price \in Prices : ThreadEnter(t, order, current_position, price)
          \/ ThreadDailyCheck(t)
          \/ ThreadLoad(t)
          \/ ThreadStore(t)
          \/ ThreadReset(t)
    /\ UNCHANGED <<scraperVars, liveVars, mockVars, pipelineVars, signalVars, normVars>>

SpecRiskThreads == InitRiskThreads /\ [][NextRiskThreads]_vars

(***************************************************************************)
(* Properties.                                                             *)
(***************************************************************************)
\* The single caller of Spec has finished a call and not started the next.
Finished == call[1].pc = "idle" /\ result[1].kind # "none"

\* session.get was called in this step.
GetIssued ==
    call'[1].robotsGets + call'[1].dataGets = call[1].robotsGets + call[1].dataGets + 1

\* C1: two calls with identical arguments on one instance, the second within
\* cache_ttl_seconds of the first, the robots policy loaded before the first:
\* exactly one data request is issued over both calls.
C1_CacheIdempotence ==
    ( /\ Finished
      /\ prev[1].valid
      /\ prev[1].args = call[1].args
      /\ prev[1].kind = "ok"
      /\ ~prev[1].hit
      /\ prev[1].robotsGets = 0
      /\ call[1].startedAt - prev[1].endedAt <= cache_ttl_seconds )
    => prev[1].dataGets + call[1].dataGets = 1

\* C2 as stated: whenever the loaded robots policy disallows the endpoint
\* path, the call fails with PermissionError and issues no data request.
C2_DenialAlwaysRaises ==
    ( /\ Finished
      /\ robot_parser.set
      /\ ~CanFetch(robot_parser.rules, EndpointPath(endpoint)) )
    => result[1].kind = "PermissionError" /\ call[1].dataGets = 0

\* C2 amended: on a cache miss, whenever the loaded robots policy disallows
\* the endpoint path, the call fails with PermissionError before any data
\* request (zero data GETs) and the robots file is not fetched again.
C2_RobotsEnforcement ==
    ( /\ Finished
      /\ ~call[1].hit
      /\ robot_parser.set
      /\ ~CanFetch(robot_parser.rules, EndpointPath(endpoint)) )
    => /\ result[1].kind = "PermissionError"
       /\ call[1].dataGets = 0
       /\ call[1].robotsGets <= 1
       /\ call[1].retries = 0

\* C2 witness: a cache miss that downloaded a disallowing policy and raised.
C2_Witness ==
    /\ Finished
    /\ ~call[1].hit
    /\ call[1].robotsGets = 1
    /\ ~CanFetch(robot_parser.rules, EndpointPath(endpoint))
    /\ result[1].kind = "PermissionError"
    /\ call[1].dataGets = 0

\* C3: any two consecutive outbound requests of one instance (robots or
\* data) are at least rate_limit_seconds apart.
C3_RateLimitBetweenRequests ==
    [][(GetIssued /\ lastGetAt >= 0) => now - lastGetAt >= rate_limit_seconds]_vars

\* C4: a data request is attempted at most max_retries + 1 times, and when
\* every attempt fails the call ends in the fetch failure after exactly
\* max_retries + 1 GETs of that request.
C4_BoundedRetry ==
    /\ call[1].reqGets <= max_retries + 1
    /\ call[1].retries <= max_retries + 1
    /\ (Finished /\ result[1].kind = "RuntimeError_data")
        => call[1].reqGets = max_retries + 1 /\ call[1].retries = max_retries + 1
    /\ (call[1].pc \in {"backoff1", "backoff2"})
        => call[1].reqGets = call[1].retries /\ call[1].retries <= max_retries

\* C4 witness: the second request of a call failed on every attempt.
C4_Witness ==
    /\ Finished
    /\ result[1].kind = "RuntimeError_data"
    /\ call[1].reqGets = max_retries + 1
    /\ call[1].dataGets > call[1].reqGets

\* C9: the file name a call reads and writes is the sanitized key, free of
\* illegal filename characters.
C9_CacheFileNameSanitized ==
    call[1].args # NoArgs =>
        /\ call[1].cache_key = MakeCacheKey(call[1].args)
        /\ \A i \in 1..Len(call[1].cache_key) :
              call[1].cache_key[i] \notin IllegalChars \cup ControlChars

\* C10: once the robots policy is loaded, no step requests robots.txt again.
C10_RobotsFetchedOnce ==
    [][robot_parser.set => call'[1].robotsGets = call[1].robotsGets
                           \/ call'[1].robotsGets = 0]_vars

\* C10 witness: the policy was downloaded by a call whose data fetch failed,
\* and the next call missed the cache and ran without a robots request.
C10_Witness ==
    /\ Finished
    /\ prev[1].valid
    /\ prev[1].robotsGets = 1
    /\ prev[1].kind = "RuntimeError_data"
    /\ ~call[1].hit
    /\ call[1].robotsGets = 0
    /\ call[1].dataGets > 0

NotApproved ==
    { "LiveExecutionNotApproved: requires EXECUTE_LIVE=true",
      "LiveExecutionNotApproved: requires APPROVAL_JSON",
      "LiveExecutionNotApproved: APPROVAL_JSON is not valid JSON" }

\* C5: execute never returns a report: it raises not-approved unless the flag
\* is the literal "true", else not-approved unless the approval payload is
\* present and valid JSON, else NotImplementedError.
C5_LiveGate ==
    liveResult # NoLiveCall =>
        LET flagOk == env.EXECUTE_LIVE.set /\ env.EXECUTE_LIVE.value = <<"t", "r", "u", "e">>
            approvalOk == /\ env.APPROVAL_JSON.set
                          /\ env.APPROVAL_JSON.value # <<>>
                          /\ JsonLoads(env.APPROVAL_JSON.value)
        IN  /\ liveResult \in NotApproved \cup {"NotImplementedError"}
            /\ ~flagOk => liveResult \in NotApproved
            /\ (flagOk /\ ~approvalOk) => liveResult \in NotApproved
            /\ (flagOk /\ approvalOk) => liveResult = "NotImplementedError"

\* C5 witness: the flag and a valid approval are set and execute still raised.
C5_Witness ==
    /\ liveResult = "NotImplementedError"
    /\ env.EXECUTE_LIVE.value = <<"t", "r", "u", "e">>
    /\ env.APPROVAL_JSON.value = <<"[", "1", "]">>

\* C6: validate raises the position-limit error if |projected| > max_position,
\* else the notional-limit error if |projected * price| > max_notional, else
\* the daily-trade error if the counter has reached max_daily_trades, else
\* succeeds.
C6_ValidateOutcome ==
    riskResult.op = "validate" =>
        LET projected == riskResult.current_position + OrderQuantity(riskResult.order)
            positionFails == Abs(projected) > riskConfig.max_position
            notionalFails == Abs(projected * riskResult.price) > riskConfig.max_notional
            dailyFails == riskResult.countBefore >= riskConfig.max_daily_trades
        IN  /\ positionFails => riskResult.outcome = "position_limit"
            /\ (~positionFails /\ notionalFails) => riskResult.outcome = "notional_limit"
            /\ (~positionFails /\ ~notionalFails /\ dailyFails)
                  => riskResult.outcome = "daily_trade_limit"
            /\ (~positionFails /\ ~notionalFails /\ ~dailyFails)
                  => riskResult.outcome = "ok"

\* C6 witness: a sell takes the position over the limit while the notional
\* and the daily count would fail too; the position check decided.
C6_Witness ==
    /\ riskResult.op = "validate"
    /\ riskResult.outcome = "position_limit"
    /\ OrderQuantity(riskResult.order) < 0
    /\ Abs((riskResult.current_position + OrderQuantity(riskResult.order))
            * riskResult.price) > riskConfig.max_notional
    /\ riskResult.countBefore >= riskConfig.max_daily_trades
    /\ riskResult.countBefore > 0

\* C7: a validate that raises leaves the trade counter unchanged; a validate
\* that succeeds increments it by exactly one.
C7_RejectedNotCounted ==
    riskResult.op = "validate" =>
        /\ riskResult.outcome # "ok" => daily_trade_count = riskResult.countBefore
        /\ riskResult.outcome = "ok" => daily_trade_count = riskResult.countBefore + 1

\* C7 witness: each kind of rejection on a counter that is not zero.
C7_Witness ==
    /\ riskResult.op = "validate"
    /\ riskResult.outcome = "notional_limit"
    /\ riskResult.countBefore = 1
    /\ daily_trade_count = 1

\* C8: after max_daily_trades successful validates since creation or the last
\* reset, a validate whose position and notional checks pass raises the
\* daily-trade error; a reset leaves no success counted.
C8_DailyTradeLimit ==
    riskResult.op = "validate" =>
        LET projected == riskResult.current_position + OrderQuantity(riskResult.order)
            othersPass == /\ Abs(projected) <= riskConfig.max_position
                          /\ Abs(projected * riskResult.price) <= riskConfig.max_notional
        IN  /\ (riskResult.okBefore >= riskConfig.max_daily_trades /\ othersPass)
                  => riskResult.outcome = "daily_trade_limit"
            /\ (riskResult.okBefore < riskConfig.max_daily_trades /\ othersPass)
                  => riskResult.outcome = "ok"

\* C8 witness: max_daily_trades = 1, one validate succeeded, the next was
\* rejected for the daily limit.
C8_Witness ==
    /\ riskConfig.max_daily_trades = 1
    /\ riskResult.op = "validate"
    /\ riskResult.okBefore = 1
    /\ riskResult.outcome = "daily_trade_limit"

\* C11: a robots.txt download that fails ends the call at once: RuntimeError
\* is raised after exactly one robots request, no data request is issued in
\* that call and the parser stays unset.
C11_RobotsFailureFatal ==
    [][(call'[1].robotsGets = call[1].robotsGets + 1 /\ call'[1].response = "error")
        => /\ ~robot_parser'.set
           /\ call'[1].pc = "idle"
           /\ result'[1].kind = "RuntimeError_robots"
           /\ call'[1].robotsGets = 1
           /\ call'[1].dataGets = 0]_vars

\* C11 witness: a call ended by the failed download, after an earlier call
\* had failed the same way.
C11_Witness ==
    /\ Finished
    /\ result[1].kind = "RuntimeError_robots"
    /\ call[1].robotsGets = 1
    /\ call[1].dataGets = 0
    /\ ~robot_parser.set
    /\ prev[1].valid
    /\ prev[1].kind = "RuntimeError_robots"


\* C12: on a fetcher constructed without a robots policy, the first request
\* of a cache-miss call is the GET of scheme://host/robots.txt, whatever path
\* the base URL carries, and no data request is made before it.
C12_RobotsUrlAtOrigin ==
    (call[1].firstGet # "none" /\ ~call[1].parserAtStart)
        => /\ call[1].firstGet = "robots"
           /\ call[1].firstUrl = SubSeq(base_url, 1, 4) \o <<"/", "robots.txt">>
           /\ call[1].dataGets > 0 => call[1].robotsGets = 1

C12_Witness ==
    /\ Finished
    /\ result[1].kind = "ok"
    /\ ~call[1].parserAtStart
    /\ base_url = <<"https:", "/", "/", "example.com", "/", "api", "/", "v1">>
    /\ call[1].firstUrl = <<"https:", "/", "/", "example.com", "/", "robots.txt">>
    /\ call[1].dataGets > 0

\* C13: the first data request of a call goes to base_url joined with the
\* endpoint by exactly one slash, a trailing slash of the endpoint kept.
C13_DataUrlJoined ==
    call[1].dataGets > 0
        => call[1].firstDataUrl
             = RStrip(base_url, "/") \o <<"/">> \o LStrip(endpoint, "/")


\* The file of `cache_key` exists and is `age` old at time t.
HasAge(files, cache_key, t, age) ==
    cache_key \in DOMAIN files /\ t - files[cache_key].mtime = age

\* A call of caller 1 starts in this step (time stands still in it).
CallStarts == call[1].pc = "idle" /\ now' = now /\ call'[1].startedAt = now

\* C14: a call that finds a cache file for its key no older than the TTL
\* returns the file's content in the same step, with no request, no wait, and
\* the last-request time, the robots policy and the cache files unchanged.
C14_CacheHitNoNetwork ==
    [][(/\ CallStarts
        /\ \E age \in 0..cache_ttl_seconds :
              HasAge(cache, call'[1].cache_key, now, age))
        => /\ call'[1].pc = "idle"
           /\ result'[1] = [kind |-> "ok",
                            payload |-> cache[call'[1].cache_key].text[2],
                            endedAt |-> now]
           /\ call'[1].robotsGets = 0
           /\ call'[1].dataGets = 0
           /\ UNCHANGED <<last_request_ts, robot_parser, cache, lastGetAt>>]_vars

C14_Witness ==
    /\ Finished
    /\ call[1].hit
    /\ result[1].kind = "ok"
    /\ result[1].payload = "p0"
    /\ ~robot_parser.set
    /\ lastGetAt = -1
    /\ last_request_ts = 0

\* C15: at the start of a call a file older than the TTL counts as absent
\* (the call goes on to the network and the file stays), a file exactly as
\* old as the TTL is a hit, and no step ever removes a file or changes one
\* except the successful end of a fetch of that key.
C15_LazyExpiry ==
    [][/\ (CallStarts /\ call'[1].cache_key \in DOMAIN cache
            /\ now - cache[call'[1].cache_key].mtime > cache_ttl_seconds)
          => (call'[1].pc = "rate_limit" /\ ~call'[1].hit /\ cache' = cache)
       /\ (CallStarts /\ HasAge(cache, call'[1].cache_key, now, cache_ttl_seconds))
          => (call'[1].hit /\ result'[1].kind = "ok")
       /\ \A k \in DOMAIN cache :
            /\ k \in DOMAIN cache'
            /\ cache'[k] # cache[k]
                 => /\ call[1].pc = "request2"
                    /\ call[1].cache_key = k
                    /\ result'[1].kind = "ok"]_vars

C15_Witness ==
    /\ Finished
    /\ result[1].kind = "ok"
    /\ ~call[1].hit
    /\ call[1].cache_key \in DOMAIN call[1].cacheAtStart
    /\ call[1].startedAt - call[1].cacheAtStart[call[1].cache_key].mtime
         > cache_ttl_seconds
    /\ cache[call[1].cache_key].mtime = result[1].endedAt
    /\ prev[1].valid
    /\ prev[1].hit

\* C16: when a cache-miss call ends with payload P, the file of its key
\* holds the text of P, written at that moment; and a hit that follows a
\* successful miss with the same arguments returns that call's P.
C16_CacheRoundTrip ==
    /\ (Finished /\ result[1].kind = "ok" /\ ~call[1].hit)
          => /\ call[1].cache_key \in DOMAIN cache
             /\ cache[call[1].cache_key]
                  = [text |-> <<"{", result[1].payload, "}">>,
                     mtime |-> result[1].endedAt]
    /\ (Finished /\ call[1].hit /\ prev[1].valid /\ prev[1].kind = "ok"
           /\ ~prev[1].hit /\ prev[1].args = call[1].args)
          => /\ result[1].kind = "ok"
             /\ result[1].payload = prev[1].payload

C16_Witness ==
    /\ Finished
    /\ call[1].hit
    /\ prev[1].valid
    /\ prev[1].kind = "ok"
    /\ ~prev[1].hit
    /\ prev[1].args = call[1].args
    /\ call[1].cache_key \in DOMAIN call[1].cacheAtStart
    /\ result[1].payload = "p2"
    /\ call[1].startedAt > prev[1].endedAt


\* C17: every execute returns a report filled in full at the given price,
\* and the audit log is always the lines it held at the start followed by
\* one line per execute, in call order.
C17_AuditLogAppendOnly ==
    /\ Len(audit_log) = Len(log_at_start) + Len(executions)
    /\ SubSeq(audit_log, 1, Len(log_at_start)) = log_at_start
    /\ \A i \in 1..Len(executions) :
         audit_log[Len(log_at_start) + i]
           = [symbol |-> executions[i][1].symbol,
              side |-> executions[i][1].side,
              quantity |-> executions[i][1].quantity,
              average_price |-> executions[i][2],
              status |-> "filled"]
    /\ executions # <<>>
         => LET last == executions[Len(executions)]
            IN  mockReport = [order |-> last[1], status |-> "filled",
                              filled_quantity |-> last[1].quantity,
                              average_price |-> last[2]]

C17_Witness ==
    /\ Len(executions) = 2
    /\ log_at_start = <<OldLine>>
    /\ Len(audit_log) = 3
    /\ audit_log[1] = OldLine
    /\ audit_log[2].side = "buy"
    /\ audit_log[3].side = "sell"
    /\ audit_log[3].average_price = 3


\* The rows are five bars in ascending time order with rising closes.
FiveAscendingBars(rows) ==
    /\ Len(rows) = 5
    /\ \A i \in 1..5 : "close" \in DOMAIN rows[i]
    /\ \A i \in 1..4 : /\ rows[i].timestamp.at < rows[i + 1].timestamp.at
                        /\ rows[i].close.value < rows[i + 1].close.value

\* Lines the current / last run has added to the audit log.
LinesOfRun == SubSeq(audit_log, Len(pipelineRun.logBefore) + 1, Len(audit_log))

C19_BackoffSchedule ==
    LET sleeps == call[1].sleeps
        n == Len(sleeps)
    IN  /\ n <= max_retries
        /\ n > 0 => sleeps[1] = backoff_factor
        /\ \A k \in 2..n : sleeps[k] = 2 * sleeps[k - 1]
        /\ call[1].pc \in {"request1", "request2", "backoff1", "backoff2"}
             => n = call[1].retries
        /\ call[1].pc \in {"backoff1", "backoff2"}
             => call[1].wakeAt = lastGetAt + sleeps[n]
        /\ (call[1].pc \in {"request1", "request2"} /\ n > 0)
             => now >= lastGetAt + sleeps[n]
        /\ (Finished /\ result[1].kind = "RuntimeError_data")
             => /\ n = max_retries
                /\ call[1].reqGets = max_retries + 1
                /\ result[1].endedAt = lastGetAt

C19_Witness ==
    /\ Finished
    /\ result[1].kind = "RuntimeError_data"
    /\ Len(call[1].sleeps) >= 2
    /\ call[1].sleeps[1] = backoff_factor
    /\ call[1].sleeps[2] = 2 * backoff_factor
    /\ call[1].dataGets = call[1].reqGets


\* The sum of the last n prices of a series of at least n prices.
RECURSIVE SumOfLast(_, _)
SumOfLast(prices, n) ==
    IF n = 0 THEN 0 ELSE prices[Len(prices) - n + 1] + SumOfLast(prices, n - 1)

\* C20: momentum_signal fails with the configuration error when
\* short_window >= long_window, fails with the insufficient-data error when
\* the windows are in order and the series is shorter than long_window, and
\* otherwise returns +1, -1 or 0 as the mean of the last short_window prices
\* is greater than, smaller than or equal to the mean of the last
\* long_window prices.
C20_MomentumSignal ==
    LET prices == signalInput.prices
        short_window == signalInput.short_window
        long_window == signalInput.long_window
        \* mean_s ? mean_l, both sides multiplied by short_window * long_window
        short_side == SumOfLast(prices, short_window) * long_window
        long_side == SumOfLast(prices, long_window) * short_window
    IN  signalResult # NoSignal
          => /\ short_window >= long_window
                  => signalResult.kind = "ValueError_windows"
             /\ Len(prices) < long_window => signalResult.kind # "ok"
             /\ (short_window < long_window /\ Len(prices) < long_window)
                  => signalResult.kind = "ValueError_data"
             /\ (short_window < long_window /\ Len(prices) >= long_window)
                  => /\ signalResult.kind = "ok"
                     /\ short_side > long_side => signalResult.signal = 1
                     /\ short_side < long_side => signalResult.signal = 0 - 1
                     /\ short_side = long_side => signalResult.signal = 0

C20_Witness ==
    /\ signalInput = [prices |-> <<1, 2, 3, 4, 5>>, short_window |-> 2,
                      long_window |-> 4]
    /\ signalResult = [kind |-> "ok", signal |-> 1]


\* A raw row with every field present, a numeric close and a timestamp that
\* is an ISO date-time, with or without a "Z".
WellFormedRow(row) ==
    /\ "timestamp" \in DOMAIN row
    /\ row.timestamp.suffix \in {"", "Z", "+00:00"}
    /\ "close" \in DOMAIN row
    /\ row.close.num

\* C21: for a batch of well-formed rows normalize_ohlc_rows returns as many
\* rows as it was given, in ascending timestamp order; a batch with a
\* malformed row makes the call fail with nothing returned.
C21_NormalizeAllOrNothing ==
    normResult # NoNormCall
      => /\ (\A i \in 1..Len(normInput) : WellFormedRow(normInput[i]))
              => /\ normResult.kind = "ok"
                 /\ Len(normResult.rows) = Len(normInput)
                 /\ \A i \in 1..(Len(normResult.rows) - 1) :
                      normResult.rows[i].timestamp.at
                        <= normResult.rows[i + 1].timestamp.at
         /\ (\E i \in 1..Len(normInput) : ~WellFormedRow(normInput[i]))
              => /\ normResult.kind # "ok"
                 /\ normResult.rows = <<>>


\* C22: the data GET that succeeds, after j <= max_retries failed attempts of
\* its request, is the last request of the call: the call returns that
\* response's payload, the cache file of the key holds it, and the request
\* has made j + 1 GETs.
C22_RetryRecovers ==
    [][(call'[1].dataGets = call[1].dataGets + 1 /\ call'[1].response = "ok")
        => /\ call[1].retries <= max_retries
           /\ call'[1].reqGets = call[1].retries + 1
           /\ call'[1].pc = "idle"
           /\ result'[1].kind = "ok"
           /\ call[1].cache_key \in DOMAIN cache'
           /\ cache'[call[1].cache_key]
                = [text |-> <<"{", result'[1].payload, "}">>, mtime |-> now]]_vars


\* C23: from the start of a call until it returns a payload the cache files
\* are those the call found, so a call that ends in an error (robots
\* download failure, permission denial, retries exhausted) leaves every file
\* as it was and creates none.
C23_CacheUnchangedOnFailure ==
    /\ call[1].pc # "idle" => cache = call[1].cacheAtStart
    /\ (Finished /\ result[1].kind # "ok") => cache = call[1].cacheAtStart

C23_Witness ==
    /\ Finished
    /\ result[1].kind = "RuntimeError_data"
    /\ call[1].dataGets > call[1].reqGets
    /\ cache = call[1].cacheAtStart
    /\ call[1].cache_key \in DOMAIN cache
    /\ call[1].startedAt - cache[call[1].cache_key].mtime > cache_ttl_seconds


\* C24: reset_daily_counters sets the trade counter to zero whatever it was
\* and leaves the limits alone; the counter changes in no other way than by
\* one upwards in a validate that succeeds and to zero in a reset; and a
\* validate that passes the position and notional checks succeeds exactly
\* while the counter, zero after a reset, is below max_daily_trades.
C24_ResetDailyCounters ==
    [][/\ riskConfig' = riskConfig
       /\ riskResult'.op = "reset" => daily_trade_count' = 0
       /\ daily_trade_count' # daily_trade_count
            => \/ /\ riskResult'.op = "validate"
                  /\ riskResult'.outcome = "ok"
                  /\ daily_trade_count' = daily_trade_count + 1
               \/ /\ riskResult'.op = "reset"
                  /\ daily_trade_count' = 0
       /\ riskResult'.op = "validate"
            => LET projected == riskResult'.current_position
                                  + OrderQuantity(riskResult'.order)
                   othersPass ==
                       /\ Abs(projected) <= riskConfig.max_position
                       /\ Abs(projected * riskResult'.price) <= riskConfig.max_notional
               IN  othersPass
                     => (riskResult'.outcome = "ok"
                           <=> daily_trade_count < riskConfig.max_daily_trades)]_vars

C24_Witness ==
    /\ riskResult.op = "reset"
    /\ riskConfig.max_daily_trades = 2
    /\ riskResult.countBefore = 2
    /\ daily_trade_count = 0


\* C27: with one caller and max_daily_trades >= 0, in every state reached by
\* validate and reset_daily_counters calls the trade counter lies between 0
\* and max_daily_trades and equals the number of validate calls that have
\* succeeded since the filter was created or last reset.
C27_CounterInvariant ==
    /\ 0 <= daily_trade_count
    /\ daily_trade_count <= riskConfig.max_daily_trades
    /\ daily_trade_count = okSinceReset

C27_Witness ==
    /\ riskResult.op = "validate"
    /\ riskResult.outcome = "daily_trade_limit"
    /\ riskConfig.max_daily_trades = 2
    /\ daily_trade_count = 2
    /\ okSinceReset = 2


\* C26: with two threads calling validate on one RiskFilter, more successful
\* validations than max_daily_trades since the last reset, or a counter that
\* differs from their number, occur only in runs where a call started while
\* another call was running (and such runs exist); while the calls are
\* serialized neither happens.
C26_UnsynchronizedCounter ==
    ~overlapped
        => /\ okSinceReset <= riskConfig.max_daily_trades
           /\ daily_trade_count = okSinceReset

C26_Witness ==
    /\ overlapped
    /\ \A t \in Threads : riskThread[t].outcome = "ok" /\ riskThread[t].pc = "idle"
    /\ riskConfig.max_daily_trades = 1
    /\ okSinceReset = 2
    /\ daily_trade_count = 1


\* Every call so far was started while no other caller was inside a call.
Serialized == \A c \in Callers : call[c].serial

\* session.get was called in this step, by either caller.
GetIssuedByAny ==
    \E c \in Callers :
        call'[c].robotsGets + call'[c].dataGets
            = call[c].robotsGets + call[c].dataGets + 1

\* robots.txt was requested in this step, by either caller.
RobotsRequestedByAny ==
    \E c \in Callers : call'[c].robotsGets = call[c].robotsGets + 1

\* C25, the serialized half: while the calls of two callers on one fetcher
\* are serialized, robots.txt is not requested again once the policy is
\* loaded and no two outbound requests are less than rate_limit_seconds
\* apart.  (The other half, that unsynchronized callers can do either, is
\* the reachability of C25_OverlappingRobotsFetch.)
C25_SerializedFetcher ==
    [][Serialized'
        => /\ RobotsRequestedByAny => ~robot_parser.set
           /\ (GetIssuedByAny /\ lastGetAt >= 0)
                => now - lastGetAt >= rate_limit_seconds]_vars

\* Two overlapping calls have each downloaded robots.txt.
C25_OverlappingRobotsFetch ==
    /\ \A c \in Callers : call[c].robotsGets = 1 /\ call[c].response = "ok"
    /\ ~Serialized


\* C28: in every call of a single caller the permission checks run with a
\* robots policy in place (the assertion of _is_allowed holds), injected or
\* downloaded, and a data request is reached only when the policy allows
\* the endpoint path.
C28_PermissionCheckHasPolicy ==
    /\ call[1].pc \in {"check1", "check2"} => robot_parser.set
    /\ (call[1].pc \in {"request1", "backoff1", "check2", "request2", "backoff2"}
          \/ call[1].dataGets > 0)
        => /\ robot_parser.set
           /\ IsAllowed(robot_parser.rules, EndpointPath(endpoint))

\* C28 witness: the policy was downloaded by this call, the check on the
\* endpoint path passed and the data request went out.
C28_Witness ==
    /\ ~call[1].parserAtStart
    /\ call[1].robotsGets = 1
    /\ call[1].dataGets > 0
    /\ robot_parser.set
    /\ robot_parser.rules # <<>>


\* C29: cache entries are per request triple: when a call follows a call
\* for a different (symbol, start, end), the two use different cache files,
\* the sanitized key derivation gives them different file names too, and
\* the later call is not answered from the cache (the directory was empty
\* before the two calls, so a hit would return the other triple's payload).
C29_CachePerTriple ==
    ( /\ Finished
      /\ prev[1].valid
      /\ prev[1].args # call[1].args )
    => /\ call[1].cache_key
            # CacheKeyOf(prev[1].args[1], prev[1].args[2], prev[1].args[3])
       /\ MakeCacheKey(call[1].args) # MakeCacheKey(prev[1].args)
       /\ ~call[1].hit

====
